---- MODULE Spec2Model ----
(***************************************************************************)
(* Model of the submit-then-poll clients of qwen_img_8step:                *)
(*   - BatchGenerator (examples/batch_generation.py): run_batch drives     *)
(*     generate_single for every prompt on a ThreadPoolExecutor and        *)
(*     collects the futures; specification Spec (one call, as in main)     *)
(*     and SpecReuse (several calls on one generator).                     *)
(*   - QwenImageAPI (examples/api_integration.py): generate_image =        *)
(*     submit_generation (retry loop) + wait_for_completion (poll loop),   *)
(*     with a discrete clock; specification SpecApi; batch_generate in     *)
(*     SpecApiBatch, and with weak fairness in SpecApiBatchLive.           *)
(*   - QwenImageGenerator (examples/quick_start.py): SpecQuick.            *)
(*   - the three polling loops fed the same replies: SpecPolling.          *)
(*   - PerformanceBenchmark.run_benchmark_suite with measure_generation    *)
(*     (benchmarks/test_performance.py): SpecPerf.                         *)
(*   - the summaries: BatchGenerator.print_summary and                     *)
(*     PerformanceBenchmark.calculate_statistics (SpecSummary),            *)
(*     QualityBenchmark.calculate_quality_metrics (SpecQuality).           *)
(***************************************************************************)
EXTENDS Integers, Sequences, FiniteSets, TLC

\* ---------------------------------------------------------------- bounds
\* Largest batch handed to run_batch.
MaxJobs == 3
\* Largest BatchConfig.max_workers tried (0 is tried too).
MaxWorkersBound == 2
\* When one BatchGenerator is used for several run_batch calls (SpecReuse):
\* the number of calls and the largest batch of each.
MaxCalls == 2
MaxReuseJobs == 1

\* ------------------------------------------------------- BatchGenerator
VARIABLES
    max_workers,   \* BatchConfig.max_workers
    batchPc,       \* where the thread that called run_batch is
    calls,         \* number of run_batch calls made so far
    prompts,       \* the argument of the current run_batch call
    jstate,        \* per job: position of its generate_single call / future
    collected,     \* futures already taken out of as_completed
    results,       \* self.results
    stats,         \* self.stats (total, successful, failed)
    cancelled,     \* a KeyboardInterrupt was delivered during run_batch
    gtime,         \* per job: result["generation_time"] of its call
    invocations,   \* per job: how often generate_single was entered for it
    peak,          \* most jobs inside generate_single at once, this call
    summaries,     \* print_summary calls since run_batch returned
    summary        \* what the latest of them printed

batchVars == <<max_workers, batchPc, calls, prompts, jstate, collected,
               results, stats, cancelled, gtime, invocations, peak,
               summaries, summary>>

\* QwenImageAPI and one generate_image call (time in ticks, see below).
VARIABLES
    api_timeout,     \* QwenImageAPI.timeout
    max_retries,     \* QwenImageAPI.max_retries
    retry_delay,     \* QwenImageAPI.retry_delay
    apiPc,           \* position inside generate_image
    attempt,         \* loop variable of submit_generation
    submitReplies,   \* answers of the POSTs sent so far, in order
    waits,           \* backoff slept after each of those POSTs
    handle,          \* prompt_id returned by submit_generation
    now,             \* the clock
    pollStart,       \* start_time of wait_for_completion
    pollCount,       \* GETs sent so far
    lastPollSentAt,  \* clock value when the latest GET was sent
    lastPoll,        \* answer of the latest GET
    polledIds,       \* the ids put into the GET /history/<id> URLs so far
    outcome          \* the GenerationResult returned

apiVars == <<api_timeout, max_retries, retry_delay, apiPc, attempt,
             submitReplies, waits, handle, now, pollStart, pollCount,
             lastPollSentAt, lastPoll, polledIds, outcome>>

\* QwenImageAPI.batch_generate around the generate_image calls.
VARIABLES
    apiRequests,     \* len(requests)
    apiBatchPc,      \* position of batch_generate
    apiResults       \* its local list `results`

apiBatchVars == <<apiRequests, apiBatchPc, apiResults>>

\* QwenImageGenerator (quick_start.py) and one generate_image call.
VARIABLES
    quick_timeout,   \* QwenImageGenerator.timeout
    quickPc,         \* position inside generate_image
    quickNow,        \* the clock, 0 when generate_image is called
    quickPollStart,  \* start_time of wait_for_completion
    quickPollCount,  \* GETs sent so far
    quickLastPoll,   \* answer of the latest GET
    quickOutcome     \* what generate_image returned

quickVars == <<quick_timeout, quickPc, quickNow, quickPollStart,
               quickPollCount, quickLastPoll, quickOutcome>>

\* PerformanceBenchmark (benchmarks/test_performance.py): run_benchmark_suite.
VARIABLES
    num_tests,        \* argument of run_benchmark_suite
    perfPc,           \* position of run_benchmark_suite
    perfI,            \* tests run so far (the loop variable i)
    generation_times, \* self.results["generation_times"]
    total_requests,   \* self.results["total_requests"]
    failed_requests,  \* self.results["failed_requests"]
    success_rate,     \* self.results["success_rate"]
    perfSummaries,    \* calculate_statistics calls so far
    perfSummary,      \* what the latest of them printed
    elapsed,          \* local `elapsed` of measure_generation
    checks,           \* status checks made by the current measure_generation
    lastMeasure       \* what the latest measure_generation returned

perfVars == <<num_tests, perfPc, perfI, generation_times, total_requests,
              failed_requests, success_rate, perfSummaries, perfSummary,
              elapsed, checks, lastMeasure>>

\* QualityBenchmark (benchmarks/test_quality.py): run_quality_suite.
VARIABLES
    qualPc,          \* position of run_quality_suite
    qualI,           \* test cases run so far
    test_cases,      \* self.results["test_cases"]
    clip_scores,     \* len(self.results["clip_scores"])
    qualSummary      \* what calculate_quality_metrics printed

qualVars == <<qualPc, qualI, test_cases, clip_scores, qualSummary>>

\* One generate_single call of a BatchGenerator with its clock (ticks).
VARIABLES
    single_timeout,  \* BatchConfig.timeout
    singlePc,        \* position inside generate_single
    singleNow,       \* the clock
    singlePollStart, \* generation_start
    singleOutcome    \* the result dict returned (success, error)

singleVars == <<single_timeout, singlePc, singleNow, singlePollStart,
                singleOutcome>>

vars == <<batchVars, apiVars, apiBatchVars, quickVars, perfVars, qualVars,
          singleVars>>

\* A prompt entry is a well-formed (prompt, seed) pair or something that
\* `prompt, seed = prompt_data` cannot unpack.
PromptKinds == {"pair", "malformed"}

RECURSIVE SeqsUpTo(_, _)
SeqsUpTo(S, n) ==
    IF n = 0 THEN {<<>>}
    ELSE LET shorter == SeqsUpTo(S, n - 1)
         IN  shorter \cup {Append(s, x) : s \in {t \in shorter : Len(t) = n - 1}, x \in S}

Jobs == 1..Len(prompts)

\* Future states: the call has not started, it is inside generate_single
\* (POST sent / polling), or the future is done with a returned dict or a
\* raised exception.
ActiveStates == {"submitting", "polling"}
ReturnedStates == {"ok", "err_load", "err_submit", "err_submit_429",
                   "err_exception", "err_timeout"}
DoneStates == ReturnedStates \cup {"raised"}

Active == {j \in Jobs : jstate[j] \in ActiveStates}
Pending == {j \in Jobs : jstate[j] = "pending"}
Done == {j \in Jobs : jstate[j] \in DoneStates}

\* The dict generate_single returns (index is 0-based in the code).
ErrorOf(s) ==
    CASE s = "ok"            -> "None"
      [] s = "err_load"      -> "Failed to load workflow"
      [] s = "err_submit"    -> "Submit failed"
      [] s = "err_submit_429" -> "Submit failed: 429"
      [] s = "err_timeout"   -> "Generation timeout"
      [] OTHER               -> "str(e)"

ResultOf(j) ==
    [index |-> j - 1, success |-> (jstate[j] = "ok"),
     generation_time |-> gtime[j], error |-> ErrorOf(jstate[j])]

\* Nothing printed yet; fields a summary leaves out are -1.
NoSummary ==
    [error |-> "pending", rate |-> [num |-> -1, den |-> 1], count |-> -1,
     mean |-> [num |-> -1, den |-> 1], median2 |-> -1, min |-> -1, max |-> -1]

BatchInit ==
    /\ max_workers \in 0..MaxWorkersBound
    /\ batchPc = "idle"
    /\ calls = 0
    /\ prompts = <<>>
    /\ jstate = <<>>
    /\ collected = {}
    /\ results = <<>>
    /\ stats = [total |-> 0, successful |-> 0, failed |-> 0]
    /\ cancelled = FALSE
    /\ gtime = <<>>
    /\ invocations = <<>>
    /\ peak = 0
    /\ summaries = 0
    /\ summary = NoSummary

\* ThreadPoolExecutor(max_workers=...) raises ValueError unless the number
\* is positive.
ConfigCheckSkipped == "collecting"
ConfigCheck == IF max_workers <= 0 THEN "config_error" ELSE "collecting"

\* run_batch up to the end of the task submission: stats["total"] is set,
\* the executor is built (ValueError for max_workers <= 0) and every prompt
\* is queued, in input order.
RunBatch(maxJobs, maxCalls) ==
    /\ batchPc \in {"idle", "returned"}
    /\ calls < maxCalls
    /\ \E ps \in SeqsUpTo(PromptKinds, maxJobs) :
        /\ prompts' = ps
        /\ stats' = [stats EXCEPT !.total = Len(ps)]
        /\ jstate' = [j \in 1..Len(ps) |-> "pending"]
        /\ gtime' = [j \in 1..Len(ps) |-> 0]
        /\ invocations' = [j \in 1..Len(ps) |-> 0]
    /\ collected' = {}
    /\ peak' = 0
    /\ summaries' = 0
    /\ summary' = NoSummary
    /\ calls' = calls + 1
    /\ batchPc' = ConfigCheck
    /\ UNCHANGED <<max_workers, results, cancelled>>
    /\ UNCHANGED <<apiVars, apiBatchVars, quickVars, perfVars, qualVars, singleVars>>

\* The executor runs at most max_workers calls at a time.
WorkerAvailableUnbounded == TRUE
WorkerAvailable == Cardinality(Active) < max_workers

\* The work queue is FIFO: the next call to start is the oldest queued one.
NextQueuedAnyOrder(j) == j \in Pending
NextQueuedRedispatches(j) == j \in Pending \cup Active
NextQueued(j) == j \in Pending /\ \A k \in Pending : j <= k

\* A worker thread takes the next queued call and runs generate_single up to
\* the POST: a malformed prompt raises at the unpacking (outside the try),
\* a missing workflow returns at once, otherwise the POST goes out.
StartJob(j) ==
    /\ batchPc \in {"collecting", "shutdown"}
    /\ NextQueued(j)
    /\ WorkerAvailable
    /\ \E workflowLoaded \in BOOLEAN :
         jstate' = [jstate EXCEPT ![j] =
                      IF prompts[j] = "malformed" THEN "raised"
                      ELSE IF ~workflowLoaded THEN "err_load"
                      ELSE "submitting"]
    /\ invocations' = [invocations EXCEPT ![j] = @ + 1]
    /\ peak' = LET running == Cardinality(Active \cup {j})
               IN  IF running > peak THEN running ELSE peak
    /\ UNCHANGED <<max_workers, batchPc, calls, prompts, collected, results,
                   stats, cancelled, gtime, summaries, summary>>
    /\ UNCHANGED <<apiVars, apiBatchVars, quickVars, perfVars, qualVars, singleVars>>

\* BatchConfig.retry_failed (default True); no code reads it.
retry_failed == TRUE

\* The POST /prompt returns: 200 with a prompt_id starts the polling, any
\* other status (429 included) returns "Submit failed: <status>", an
\* exception (transport error, or a 200 body without prompt_id) is caught by
\* `except Exception`.
SubmitReplies == {"200", "429", "other_status", "exception"}

SubmitReturns(j) ==
    /\ jstate[j] = "submitting"
    /\ \E reply \in SubmitReplies :
         jstate' = [jstate EXCEPT ![j] =
                      CASE reply = "200"          -> "polling"
                        [] reply = "429"          -> "err_submit_429"
                        [] reply = "other_status" -> "err_submit"
                        [] OTHER                  -> "err_exception"]
    /\ UNCHANGED <<max_workers, batchPc, calls, prompts, collected, results,
                   stats, cancelled, gtime, invocations, peak, summaries,
                   summary>>
    /\ UNCHANGED <<apiVars, apiBatchVars, quickVars, perfVars, qualVars, singleVars>>

\* The polling loop ends: an output image was found, config.timeout ran
\* out, or a GET raised.
PollEnds == {"image", "timeout", "exception"}

\* A success stores time.time() - start_time (at most maxTime ticks) in
\* its own result dict; every other outcome leaves the initial 0.  The
\* worker touches neither self.results nor self.stats.
WorkerWritesCounters(end) ==
    /\ stats' = IF end = "image" THEN [stats EXCEPT !.successful = @ + 1]
                ELSE [stats EXCEPT !.failed = @ + 1]
    /\ UNCHANGED results

WorkerWrites(end) == UNCHANGED <<results, stats>>

PollReturns(j, maxTime) ==
    /\ jstate[j] = "polling"
    /\ \E end \in PollEnds, t \in 0..maxTime :
        /\ jstate' = [jstate EXCEPT ![j] =
                      CASE end = "image"   -> "ok"
                        [] end = "timeout" -> "err_timeout"
                        [] OTHER           -> "err_exception"]
        /\ gtime' = [gtime EXCEPT ![j] = IF end = "image" THEN t ELSE 0]
        /\ WorkerWrites(end)
    /\ UNCHANGED <<max_workers, batchPc, calls, prompts, collected,
                   cancelled, invocations, peak, summaries, summary>>
    /\ UNCHANGED <<apiVars, apiBatchVars, quickVars, perfVars, qualVars, singleVars>>

\* future.result() raised: the except clause of the collecting loop.
CollectRaisedPropagates(j) ==
    /\ batchPc' = "aborted"
    /\ UNCHANGED <<results, stats>>

CollectRaised(j) ==
    /\ stats' = [stats EXCEPT !.failed = @ + 1]
    /\ UNCHANGED <<results, batchPc>>

\* future.result() returned a dict: it is appended and counted.
CollectReturnedDropsRecord(j) ==
    /\ stats' = IF jstate[j] = "ok"
                THEN [stats EXCEPT !.successful = @ + 1]
                ELSE [stats EXCEPT !.failed = @ + 1]
    /\ UNCHANGED <<results, batchPc>>

CollectReturned(j) ==
    /\ results' = Append(results, ResultOf(j))
    /\ stats' = IF jstate[j] = "ok"
                THEN [stats EXCEPT !.successful = @ + 1]
                ELSE [stats EXCEPT !.failed = @ + 1]
    /\ UNCHANGED batchPc

\* One iteration of `for future in as_completed(...)`: any done future not
\* yet yielded.
Collect(j) ==
    /\ batchPc = "collecting"
    /\ j \in Done \ collected
    /\ collected' = collected \cup {j}
    /\ IF jstate[j] = "raised" THEN CollectRaised(j) ELSE CollectReturned(j)
    /\ UNCHANGED <<max_workers, calls, prompts, jstate, cancelled, gtime,
                   invocations, peak, summaries, summary>>
    /\ UNCHANGED <<apiVars, apiBatchVars, quickVars, perfVars, qualVars, singleVars>>

\* as_completed has yielded every future of future_to_index.
AsCompletedExhaustedEarly == collected # {}
AsCompletedExhausted == collected = Jobs

\* as_completed is exhausted, the with block exits, run_batch returns.
ReturnBatch ==
    /\ batchPc = "collecting"
    /\ AsCompletedExhausted
    /\ batchPc' = "returned"
    /\ UNCHANGED <<max_workers, calls, prompts, jstate, collected, results,
                   stats, cancelled, gtime, invocations, peak, summaries,
                   summary>>
    /\ UNCHANGED <<apiVars, apiBatchVars, quickVars, perfVars, qualVars, singleVars>>

\* KeyboardInterrupt in the thread running run_batch: `except Exception`
\* does not catch it, the with block's exit runs executor.shutdown(wait=True).
Interrupt ==
    /\ batchPc = "collecting"
    /\ cancelled' = TRUE
    /\ batchPc' = "shutdown"
    /\ UNCHANGED <<max_workers, calls, prompts, jstate, collected, results,
                   stats, gtime, invocations, peak, summaries, summary>>
    /\ UNCHANGED <<apiVars, apiBatchVars, quickVars, perfVars, qualVars, singleVars>>

\* shutdown(wait=True) returns once the workers have drained the queue; the
\* KeyboardInterrupt then reaches main's handler.
ShutdownDone ==
    /\ batchPc = "shutdown"
    /\ Done = Jobs
    /\ batchPc' = "interrupted"
    /\ UNCHANGED <<max_workers, calls, prompts, jstate, collected, results,
                   stats, cancelled, gtime, invocations, peak, summaries,
                   summary>>
    /\ UNCHANGED <<apiVars, apiBatchVars, quickVars, perfVars, qualVars, singleVars>>

\* main() builds one BatchGenerator and calls run_batch on it once.
MainCalls == 1

\* ------------------------------------------------------------ print_summary
\* Where the summary is exercised: the largest batch, the longest
\* generation_time of a success (in ticks) and the number of print_summary
\* calls after one run.
MaxSummaryJobs == 2
MaxGenTime == 2
MaxSummaries == 2

RECURSIVE SumSeq(_)
SumSeq(s) == IF s = <<>> THEN 0 ELSE Head(s) + SumSeq(Tail(s))

\* sorted(times), as statistics.median, min and max see the list.
RECURSIVE Sorted(_)
Sorted(s) ==
    IF s = <<>> THEN <<>>
    ELSE LET m == CHOOSE i \in 1..Len(s) : \A k \in 1..Len(s) : s[i] <= s[k]
         IN  <<s[m]>> \o Sorted(SubSeq(s, 1, m - 1) \o SubSeq(s, m + 1, Len(s)))

\* statistics.mean as the exact fraction sum / len.
Mean(times) == [num |-> SumSeq(times), den |-> Len(times)]

\* statistics.median, doubled to stay in the integers: the middle element,
\* or the mean of the two middle ones.
Median2(times) ==
    LET t == Sorted(times)
        n == Len(t)
    IN  IF n % 2 = 1 THEN 2 * t[(n + 1) \div 2]
        ELSE t[n \div 2] + t[n \div 2 + 1]

MinOf(times) == Sorted(times)[1]
MaxOf(times) == Sorted(times)[Len(times)]

\* [r['generation_time'] for r in self.results if r['success']]
SuccessfulTimes ==
    LET ok == SelectSeq(results, LAMBDA r : r.success)
    IN  [i \in 1..Len(ok) |-> ok[i].generation_time]

\* What print_summary prints: the success rate successful / total * 100
\* (ZeroDivisionError when total is 0), and the timing statistics when
\* stats['successful'] > 0 (statistics.mean of an empty list raises).
PrintedSummary ==
    IF stats.total = 0
    THEN [NoSummary EXCEPT !.error = "ZeroDivisionError"]
    ELSE IF stats.successful <= 0
    THEN [NoSummary EXCEPT !.error = "None",
                           !.rate = [num |-> stats.successful * 100,
                                     den |-> stats.total],
                           !.count = 0]
    ELSE IF SuccessfulTimes = <<>>
    THEN [NoSummary EXCEPT !.error = "StatisticsError"]
    ELSE [error |-> "None",
          rate |-> [num |-> stats.successful * 100, den |-> stats.total],
          count |-> Len(SuccessfulTimes),
          mean |-> Mean(SuccessfulTimes),
          median2 |-> Median2(SuccessfulTimes),
          min |-> MinOf(SuccessfulTimes),
          max |-> MaxOf(SuccessfulTimes)]

\* print_summary only reads self.stats and self.results.
SummaryDrainsResults == results' = <<>> /\ UNCHANGED stats
SummaryReads == UNCHANGED <<results, stats>>

\* print_summary, called after run_batch has returned (as main does).
PrintSummary ==
    /\ batchPc = "returned"
    /\ summaries < MaxSummaries
    /\ summaries' = summaries + 1
    /\ summary' = PrintedSummary
    /\ SummaryReads
    /\ UNCHANGED <<max_workers, batchPc, calls, prompts, jstate, collected,
                   cancelled, gtime, invocations, peak>>
    /\ UNCHANGED <<apiVars, apiBatchVars, quickVars, perfVars, qualVars, singleVars>>

\* --------------------------------------------------------- QwenImageAPI
\* Time is counted in ticks of one second; the clock `now` starts when
\* generate_image is called, which is when the first submission attempt
\* begins (load_workflow and prepare_workflow do no network I/O).

\* Largest constructor arguments tried.
MaxTimeout == 3
MaxRetries == 3
MaxRetryDelay == 1
\* Longest a POST /prompt and a GET /history take to answer, in ticks.
MaxPostTime == 1
MaxGetTime == 2
\* time.sleep(1) between two status checks.
PollInterval == 1

NoResult == [success |-> FALSE, prompt_id |-> "None", generation_time |-> -1,
             images |-> "None", error |-> "pending"]

ApiInit ==
    /\ api_timeout \in 1..MaxTimeout
    /\ max_retries \in 0..MaxRetries
    /\ retry_delay \in 0..MaxRetryDelay
    /\ apiPc = "idle"
    /\ attempt = 0
    /\ submitReplies = <<>>
    /\ waits = <<>>
    /\ handle = "None"
    /\ now = 0
    /\ pollStart = 0
    /\ pollCount = 0
    /\ lastPollSentAt = -1
    /\ lastPoll = "none"
    /\ polledIds = {}
    /\ outcome = NoResult

\* generate_image up to the submission: without a workflow it returns at
\* once, otherwise submit_generation starts with attempt 0.
GenerateImage ==
    /\ apiPc = "idle"
    /\ \E workflowLoaded \in BOOLEAN :
         IF workflowLoaded
         THEN /\ apiPc' = "submitting"
              /\ outcome' = outcome
         ELSE /\ apiPc' = "done"
              /\ outcome' = [NoResult EXCEPT !.error = "Failed to load workflow"]
    /\ UNCHANGED <<api_timeout, max_retries, retry_delay, attempt,
                   submitReplies, waits, handle, now, pollStart, pollCount,
                   lastPollSentAt, lastPoll, polledIds>>
    /\ UNCHANGED <<batchVars, apiBatchVars, quickVars, perfVars, qualVars, singleVars>>

\* What a POST /prompt can answer: 200 with a prompt_id, 200 with a body
\* that has no prompt_id (KeyError), 429, another status, or a
\* requests.exceptions.RequestException (connection failure, timeout).
PostReplies == {"200", "200_no_id", "429", "other_status", "exception"}

\* The prompt ids the service hands out.
PromptIds == {"p1", "p2"}
TransientReplies == {"429", "exception"}

\* `for attempt in range(self.max_retries)`
MoreAttemptsOffByOne == attempt <= max_retries
MoreAttempts == attempt < max_retries

\* The sleep that follows a failed attempt, by its answer.
BackoffAfter(reply, a) ==
    CASE reply = "429" -> retry_delay * (a + 1)
      [] reply = "exception" /\ a < max_retries - 1 -> retry_delay * (a + 1)
      [] OTHER -> 0

\* The loop variable after a failed attempt: every branch falls through to
\* the next iteration.
NextAttemptStopsOn429(reply, a) == IF reply = "429" THEN max_retries ELSE a + 1
NextAttempt(reply, a) == a + 1

\* A retry loop that does not return on a 200.
SubmitAttemptKeepsSubmitting ==
    /\ apiPc = "submitting"
    /\ MoreAttempts
    /\ \E reply \in PostReplies, d \in 0..MaxPostTime :
        /\ submitReplies' = Append(submitReplies, reply)
        /\ waits' = Append(waits, BackoffAfter(reply, attempt))
        /\ now' = now + d + BackoffAfter(reply, attempt)
        /\ CASE reply = "200" ->
                  /\ handle' \in PromptIds
                  /\ attempt' = attempt + 1
                  /\ UNCHANGED <<apiPc, pollStart>>
             [] reply = "200_no_id" ->
                  /\ apiPc' = "raised"
                  /\ UNCHANGED <<handle, pollStart, attempt>>
             [] OTHER ->
                  /\ attempt' = NextAttempt(reply, attempt)
                  /\ UNCHANGED <<handle, pollStart, apiPc>>
    /\ UNCHANGED <<api_timeout, max_retries, retry_delay, pollCount,
                   lastPollSentAt, lastPoll, polledIds, outcome>>
    /\ UNCHANGED <<batchVars, apiBatchVars, quickVars, perfVars, qualVars, singleVars>>

\* One iteration of the retry loop: the POST, its answer after d ticks, and
\* the sleep of the branch taken.  A 200 returns the prompt_id, and
\* generate_image enters wait_for_completion, which reads the clock.
SubmitAttempt ==
    /\ apiPc = "submitting"
    /\ MoreAttempts
    /\ \E reply \in PostReplies, d \in 0..MaxPostTime :
        /\ submitReplies' = Append(submitReplies, reply)
        /\ waits' = Append(waits, BackoffAfter(reply, attempt))
        /\ now' = now + d + BackoffAfter(reply, attempt)
        /\ CASE reply = "200" ->
                  /\ handle' \in PromptIds
                  /\ apiPc' = "polling"
                  /\ pollStart' = now'
                  /\ attempt' = attempt
             [] reply = "200_no_id" ->
                  /\ apiPc' = "raised"
                  /\ UNCHANGED <<handle, pollStart, attempt>>
             [] OTHER ->
                  /\ attempt' = NextAttempt(reply, attempt)
                  /\ UNCHANGED <<handle, pollStart, apiPc>>
    /\ UNCHANGED <<api_timeout, max_retries, retry_delay, pollCount,
                   lastPollSentAt, lastPoll, polledIds, outcome>>
    /\ UNCHANGED <<batchVars, apiBatchVars, quickVars, perfVars, qualVars, singleVars>>

\* The loop ran out: submit_generation returns None and generate_image
\* reports the failed submission.
SubmitGivesUp ==
    /\ apiPc = "submitting"
    /\ ~MoreAttempts
    /\ apiPc' = "done"
    /\ outcome' = [NoResult EXCEPT !.error = "Failed to submit generation request"]
    /\ UNCHANGED <<api_timeout, max_retries, retry_delay, attempt,
                   submitReplies, waits, handle, now, pollStart, pollCount,
                   lastPollSentAt, lastPoll, polledIds>>
    /\ UNCHANGED <<batchVars, apiBatchVars, quickVars, perfVars, qualVars, singleVars>>

\* What a GET /history/<id> can answer: 200 with an entry for the id (with
\* or without output images), 200 without an entry, another status, or a
\* RequestException.
GetReplies == {"entry_images", "entry_no_images", "no_entry", "non200", "exception"}

TimeoutResult ==
    [success |-> FALSE, prompt_id |-> handle, generation_time |-> api_timeout,
     images |-> "None", error |-> "timeout"]

\* The id in the URL of a status check: the prompt_id argument of
\* wait_for_completion, which is what submit_generation returned.
PolledIdOfFirstPrompt == "p1"
PolledId == handle

\* `while time.time() - start_time < self.timeout`
WithinBudget == now - pollStart < api_timeout

\* One iteration of the polling loop: the GET goes out while the budget
\* lasts and is answered d ticks later.
PollOnceWith(reply, d) ==
    /\ apiPc = "polling"
    /\ WithinBudget
    /\ lastPoll' = reply
    /\ CASE reply \in {"entry_images", "entry_no_images"} ->
              /\ now' = now + d
              /\ apiPc' = "done"
              /\ outcome' = [success |-> TRUE, prompt_id |-> handle,
                             generation_time |-> now' - pollStart,
                             images |-> IF reply = "entry_images"
                                        THEN "some" ELSE "empty",
                             error |-> "None"]
         [] reply = "exception" ->
              /\ now' = now + d
              /\ apiPc' = "done"
              /\ outcome' = TimeoutResult
         [] OTHER ->
              /\ now' = now + d + PollInterval
              /\ UNCHANGED <<apiPc, outcome>>
    /\ pollCount' = pollCount + 1
    /\ lastPollSentAt' = now
    /\ polledIds' = polledIds \cup {PolledId}
    /\ UNCHANGED <<api_timeout, max_retries, retry_delay, attempt,
                   submitReplies, waits, handle, pollStart>>

PollOnce ==
    /\ \E reply \in GetReplies, d \in 0..MaxGetTime : PollOnceWith(reply, d)
    /\ UNCHANGED <<batchVars, apiBatchVars, quickVars, perfVars, qualVars, singleVars>>

\* The loop condition fails: the timeout result is returned.
PollTimesOut ==
    /\ apiPc = "polling"
    /\ ~WithinBudget
    /\ apiPc' = "done"
    /\ outcome' = TimeoutResult
    /\ UNCHANGED <<api_timeout, max_retries, retry_delay, attempt,
                   submitReplies, waits, handle, now, pollStart, pollCount,
                   lastPollSentAt, lastPoll, polledIds>>
    /\ UNCHANGED <<batchVars, apiBatchVars, quickVars, perfVars, qualVars, singleVars>>

\* The other client stays as constructed while one is exercised.
ApiIdle ==
    /\ api_timeout = 1
    /\ max_retries = 0
    /\ retry_delay = 0
    /\ apiPc = "idle"
    /\ attempt = 0
    /\ submitReplies = <<>>
    /\ waits = <<>>
    /\ handle = "None"
    /\ now = 0
    /\ pollStart = 0
    /\ pollCount = 0
    /\ lastPollSentAt = -1
    /\ lastPoll = "none"
    /\ polledIds = {}
    /\ outcome = NoResult

BatchIdle ==
    /\ max_workers = 1
    /\ batchPc = "idle"
    /\ calls = 0
    /\ prompts = <<>>
    /\ jstate = <<>>
    /\ collected = {}
    /\ results = <<>>
    /\ stats = [total |-> 0, successful |-> 0, failed |-> 0]
    /\ cancelled = FALSE
    /\ gtime = <<>>
    /\ invocations = <<>>
    /\ peak = 0
    /\ summaries = 0
    /\ summary = NoSummary

\* ---------------------------------------------- QwenImageAPI.batch_generate
\* Largest list handed to batch_generate, and the largest constructor
\* arguments tried with it.
MaxRequests == 2
MaxBatchTimeout == 1
MaxBatchRetries == 1

ApiBatchIdle ==
    /\ apiRequests = 0
    /\ apiBatchPc = "idle"
    /\ apiResults = <<>>

\* batch_generate has been called with a list of apiRequests requests.
ApiBatchInit ==
    /\ apiRequests \in 0..MaxRequests
    /\ apiBatchPc = "running"
    /\ apiResults = <<>>

\* `for i, request in enumerate(requests, 1)`: the next generate_image call.
BatchCallsGenerateImage ==
    /\ apiBatchPc = "running"
    /\ Len(apiResults) < apiRequests
    /\ GenerateImage

\* generate_image returned: results.append(result), the 0.5 s pause, and the
\* per-call state (with its clock) starts afresh for the next request.
BatchAppendsResult ==
    /\ apiBatchPc = "running"
    /\ apiPc = "done"
    /\ apiResults' = Append(apiResults, outcome)
    /\ apiPc' = "idle"
    /\ attempt' = 0
    /\ submitReplies' = <<>>
    /\ waits' = <<>>
    /\ handle' = "None"
    /\ now' = 0
    /\ pollStart' = 0
    /\ pollCount' = 0
    /\ lastPollSentAt' = -1
    /\ lastPoll' = "none"
    /\ polledIds' = {}
    /\ outcome' = NoResult
    /\ UNCHANGED <<api_timeout, max_retries, retry_delay, apiRequests, apiBatchPc>>
    /\ UNCHANGED <<batchVars, quickVars, perfVars, qualVars, singleVars>>

\* generate_image raised: batch_generate has no try around the call, the
\* exception leaves it and the results collected so far are lost.
BatchGenerateRaises ==
    /\ apiBatchPc = "running"
    /\ apiPc = "raised"
    /\ apiBatchPc' = "raised"
    /\ UNCHANGED <<apiRequests, apiResults>>
    /\ UNCHANGED <<apiVars, batchVars, quickVars, perfVars, qualVars, singleVars>>

\* The loop is over: `return results`.
BatchGenerateReturns ==
    /\ apiBatchPc = "running"
    /\ apiPc = "idle"
    /\ Len(apiResults) = apiRequests
    /\ apiBatchPc' = "returned"
    /\ UNCHANGED <<apiRequests, apiResults>>
    /\ UNCHANGED <<apiVars, batchVars, quickVars, perfVars, qualVars, singleVars>>

\* ------------------------------------------------- QwenImageGenerator
\* generate_image returns a dict, or None (kind "None") when the workflow is
\* missing or the submission fails; absent keys are "None".
QuickPending ==
    [kind |-> "pending", success |-> FALSE, prompt_id |-> "None",
     generation_time |-> -1, images |-> "None", error |-> "None"]

QuickNone == [QuickPending EXCEPT !.kind = "None"]

QuickIdle ==
    /\ quick_timeout = 1
    /\ quickPc = "idle"
    /\ quickNow = 0
    /\ quickPollStart = 0
    /\ quickPollCount = 0
    /\ quickLastPoll = "none"
    /\ quickOutcome = QuickPending

QuickInit ==
    /\ quick_timeout \in 1..MaxTimeout
    /\ quickPc = "idle"
    /\ quickNow = 0
    /\ quickPollStart = 0
    /\ quickPollCount = 0
    /\ quickLastPoll = "none"
    /\ quickOutcome = QuickPending

\* generate_image up to the POST: without a workflow it returns None.
QuickGenerateImage ==
    /\ quickPc = "idle"
    /\ \E workflowLoaded \in BOOLEAN :
         IF workflowLoaded
         THEN /\ quickPc' = "submitting"
              /\ quickOutcome' = quickOutcome
         ELSE /\ quickPc' = "done"
              /\ quickOutcome' = QuickNone
    /\ UNCHANGED <<quick_timeout, quickNow, quickPollStart, quickPollCount,
                   quickLastPoll>>
    /\ UNCHANGED <<batchVars, apiVars, apiBatchVars, perfVars, qualVars, singleVars>>

\* What the single POST /prompt can answer: 200 with a prompt_id, 200 with
\* a body that has no prompt_id (KeyError, not caught), another status (429
\* included), or a RequestException.
QuickPostReplies == {"200", "200_no_id", "other_status", "exception"}

\* The POST and its answer after d ticks: 200 enters wait_for_completion,
\* which reads the clock; a rejection or a network error returns None.
QuickSubmit ==
    /\ quickPc = "submitting"
    /\ \E reply \in QuickPostReplies, d \in 0..MaxPostTime :
        /\ quickNow' = quickNow + d
        /\ CASE reply = "200" ->
                  /\ quickPc' = "polling"
                  /\ quickPollStart' = quickNow'
                  /\ quickOutcome' = quickOutcome
             [] reply = "200_no_id" ->
                  /\ quickPc' = "raised"
                  /\ UNCHANGED <<quickPollStart, quickOutcome>>
             [] OTHER ->
                  /\ quickPc' = "done"
                  /\ quickOutcome' = QuickNone
                  /\ UNCHANGED quickPollStart
    /\ UNCHANGED <<quick_timeout, quickPollCount, quickLastPoll>>
    /\ UNCHANGED <<batchVars, apiVars, apiBatchVars, perfVars, qualVars, singleVars>>

QuickTimeoutResult ==
    [kind |-> "dict", success |-> FALSE, prompt_id |-> "pid",
     generation_time |-> quick_timeout, images |-> "None", error |-> "timeout"]

\* `while time.time() - start_time < self.timeout`
QuickWithinBudget == quickNow - quickPollStart < quick_timeout

\* One iteration of the polling loop: only an entry with a non-empty image
\* list returns the success; a RequestException breaks out of the loop.
QuickPollOnceWith(reply, d) ==
    /\ quickPc = "polling"
    /\ QuickWithinBudget
    /\ quickLastPoll' = reply
    /\ CASE reply = "entry_images" ->
              /\ quickNow' = quickNow + d
              /\ quickPc' = "done"
              /\ quickOutcome' =
                     [kind |-> "dict", success |-> TRUE, prompt_id |-> "pid",
                      generation_time |-> quickNow' - quickPollStart,
                      images |-> "some", error |-> "None"]
         [] reply = "exception" ->
              /\ quickNow' = quickNow + d
              /\ quickPc' = "done"
              /\ quickOutcome' = QuickTimeoutResult
         [] OTHER ->
              /\ quickNow' = quickNow + d + PollInterval
              /\ UNCHANGED <<quickPc, quickOutcome>>
    /\ quickPollCount' = quickPollCount + 1
    /\ UNCHANGED <<quick_timeout, quickPollStart>>

QuickPollOnce ==
    /\ \E reply \in GetReplies, d \in 0..MaxGetTime : QuickPollOnceWith(reply, d)
    /\ UNCHANGED <<batchVars, apiVars, apiBatchVars, perfVars, qualVars, singleVars>>

\* The loop condition fails: the timeout dict is returned.
QuickPollTimesOut ==
    /\ quickPc = "polling"
    /\ ~QuickWithinBudget
    /\ quickPc' = "done"
    /\ quickOutcome' = QuickTimeoutResult
    /\ UNCHANGED <<quick_timeout, quickNow, quickPollStart, quickPollCount,
                   quickLastPoll>>
    /\ UNCHANGED <<batchVars, apiVars, apiBatchVars, perfVars, qualVars, singleVars>>

\* ------------------------------------- BatchGenerator.generate_single
\* The polling loop of one generate_single call, with its clock.
SinglePending == [success |-> FALSE, error |-> "None"]

SingleIdle ==
    /\ single_timeout = 1
    /\ singlePc = "idle"
    /\ singleNow = 0
    /\ singlePollStart = 0
    /\ singleOutcome = SinglePending

\* `while time.time() - generation_start < self.config.timeout`
SingleWithinBudget == singleNow - singlePollStart < single_timeout

\* One iteration of the polling loop: only an entry with a non-empty image
\* list returns the success; an exception of the GET leaves the try block
\* and `except Exception` records str(e) as the error.
SinglePollOnceWith(reply, d) ==
    /\ singlePc = "polling"
    /\ SingleWithinBudget
    /\ CASE reply = "entry_images" ->
              /\ singleNow' = singleNow + d
              /\ singlePc' = "done"
              /\ singleOutcome' = [success |-> TRUE, error |-> "None"]
         [] reply = "exception" ->
              /\ singleNow' = singleNow + d
              /\ singlePc' = "done"
              /\ singleOutcome' = [success |-> FALSE, error |-> "str(e)"]
         [] OTHER ->
              /\ singleNow' = singleNow + d + PollInterval
              /\ UNCHANGED <<singlePc, singleOutcome>>
    /\ UNCHANGED <<single_timeout, singlePollStart>>

\* The loop condition fails: the error is "Generation timeout".
SinglePollTimesOut ==
    /\ singlePc = "polling"
    /\ ~SingleWithinBudget
    /\ singlePc' = "done"
    /\ singleOutcome' = [success |-> FALSE, error |-> "Generation timeout"]
    /\ UNCHANGED <<single_timeout, singleNow, singlePollStart>>
    /\ UNCHANGED <<batchVars, apiVars, apiBatchVars, quickVars, perfVars,
                   qualVars>>

\* ------------------------------------------------- PerformanceBenchmark
\* Largest num_tests tried.
MaxTests == 2

PerfIdle ==
    /\ num_tests = 0
    /\ perfPc = "idle"
    /\ perfI = 0
    /\ generation_times = <<>>
    /\ total_requests = 0
    /\ failed_requests = 0
    /\ success_rate = [num |-> 0, den |-> 1]
    /\ perfSummaries = 0
    /\ perfSummary = NoSummary
    /\ elapsed = 0
    /\ checks = 0
    /\ lastMeasure = "none"

\* The benchmark object exists but its suite is not run.
PerfUnused ==
    /\ num_tests = 0
    /\ perfPc = "unused"
    /\ perfI = 0
    /\ generation_times = <<>>
    /\ total_requests = 0
    /\ failed_requests = 0
    /\ success_rate = [num |-> 0, den |-> 1]
    /\ perfSummaries = 0
    /\ perfSummary = NoSummary
    /\ elapsed = 0
    /\ checks = 0
    /\ lastMeasure = "none"

\* run_benchmark_suite(num_tests) up to the loop: it returns early when the
\* workflow cannot be loaded or the server does not answer.
RunBenchmarkSuite ==
    /\ perfPc = "idle"
    /\ num_tests' \in 0..MaxTests
    /\ \E ready \in BOOLEAN :
         perfPc' = IF ready THEN "running" ELSE "returned_early"
    /\ UNCHANGED <<perfI, generation_times, total_requests, failed_requests,
                   success_rate, perfSummaries, perfSummary, elapsed, checks,
                   lastMeasure>>
    /\ UNCHANGED <<batchVars, apiVars, apiBatchVars, quickVars, qualVars,
                   singleVars>>

\* What measure_generation returns: None (the submission failed), the
\* timeout dict (success False), or a success dict with its time.
MeasureResults == {"None", "timeout", "success"}

\* Time inside measure_generation is counted in units of its poll_interval
\* (0.5 s): max_wait_time = 60 s is 120 of them.
poll_interval == 1
max_wait_time == 120

\* The else branch of the test loop: failed_requests and total_requests
\* are both incremented.
RecordFailureUncounted ==
    /\ total_requests' = total_requests + 1
    /\ UNCHANGED <<failed_requests, generation_times>>

RecordFailure ==
    /\ failed_requests' = failed_requests + 1
    /\ total_requests' = total_requests + 1
    /\ UNCHANGED generation_times

\* The next test: measure_generation submits the workflow.  Without a
\* prompt_id (a status other than 200, or an exception) it returns None
\* and the test is recorded as failed; with one the polling starts.
MeasureSubmit ==
    /\ perfPc = "running"
    /\ perfI < num_tests
    /\ \E accepted \in BOOLEAN :
         IF accepted
         THEN /\ perfPc' = "polling"
              /\ UNCHANGED <<perfI, generation_times, total_requests,
                             failed_requests, lastMeasure>>
         ELSE /\ RecordFailure
              /\ lastMeasure' = "None"
              /\ perfI' = perfI + 1
              /\ UNCHANGED perfPc
    /\ elapsed' = 0
    /\ checks' = 0
    /\ UNCHANGED <<num_tests, success_rate, perfSummaries, perfSummary>>
    /\ UNCHANGED <<batchVars, apiVars, apiBatchVars, quickVars, qualVars,
                   singleVars>>

\* What check_generation_status can meet: an entry with outputs, an entry
\* with empty outputs, no entry, another status, or an exception (caught
\* inside it).  Only non-empty outputs are truthy.
CheckReplies == {"outputs", "empty_outputs", "no_entry", "non200", "exception"}

\* `while elapsed < max_wait_time`
WithinWaitOneMore == elapsed <= max_wait_time
WithinWait == elapsed < max_wait_time

\* One iteration of the polling loop: non-empty outputs return the success
\* dict (its generation_time appended by the test loop); anything else
\* sleeps poll_interval and adds it to elapsed.
CheckStatus ==
    /\ perfPc = "polling"
    /\ WithinWait
    /\ checks' = checks + 1
    /\ \E reply \in CheckReplies, t \in 0..MaxGenTime :
         IF reply = "outputs"
         THEN /\ generation_times' = Append(generation_times, t)
              /\ total_requests' = total_requests + 1
              /\ perfI' = perfI + 1
              /\ perfPc' = "running"
              /\ lastMeasure' = "success"
              /\ UNCHANGED <<failed_requests, elapsed>>
         ELSE /\ elapsed' = elapsed + poll_interval
              /\ UNCHANGED <<generation_times, total_requests, perfI, perfPc,
                             lastMeasure, failed_requests>>
    /\ UNCHANGED <<num_tests, success_rate, perfSummaries, perfSummary>>
    /\ UNCHANGED <<batchVars, apiVars, apiBatchVars, quickVars, qualVars,
                   singleVars>>

\* The loop condition fails: the timeout dict is returned and the test is
\* recorded as failed.
MeasureTimesOut ==
    /\ perfPc = "polling"
    /\ ~WithinWait
    /\ RecordFailure
    /\ lastMeasure' = "timeout"
    /\ perfI' = perfI + 1
    /\ perfPc' = "running"
    /\ UNCHANGED <<num_tests, success_rate, perfSummaries, perfSummary,
                   elapsed, checks>>
    /\ UNCHANGED <<batchVars, apiVars, apiBatchVars, quickVars, qualVars,
                   singleVars>>

\* (total_requests - failed_requests) / total_requests * 100, computed
\* only when total_requests > 0; otherwise the stored rate stays.
ComputedSuccessRate ==
    IF total_requests > 0
    THEN [num |-> (total_requests - failed_requests) * 100, den |-> total_requests]
    ELSE success_rate

\* What calculate_statistics prints: the rate, and the timing statistics
\* when generation_times is not empty.
PrintedStatistics ==
    IF generation_times = <<>>
    THEN [NoSummary EXCEPT !.error = "None", !.rate = ComputedSuccessRate,
                           !.count = 0]
    ELSE [error |-> "None",
          rate |-> ComputedSuccessRate,
          count |-> Len(generation_times),
          mean |-> Mean(generation_times),
          median2 |-> Median2(generation_times),
          min |-> MinOf(generation_times),
          max |-> MaxOf(generation_times)]

\* calculate_statistics: at the end of run_benchmark_suite, or called again
\* on the finished benchmark.  It stores success_rate and reads the rest.
CalculateStatistics ==
    /\ \/ perfPc = "running" /\ perfI = num_tests
       \/ perfPc = "done"
    /\ perfSummaries < MaxSummaries
    /\ perfSummaries' = perfSummaries + 1
    /\ success_rate' = ComputedSuccessRate
    /\ perfSummary' = PrintedStatistics
    /\ perfPc' = "done"
    /\ UNCHANGED <<num_tests, perfI, generation_times, total_requests,
                   failed_requests, elapsed, checks, lastMeasure>>
    /\ UNCHANGED <<batchVars, apiVars, apiBatchVars, quickVars, qualVars,
                   singleVars>>

\* ----------------------------------------------------- QualityBenchmark
\* len(test_cases) in run_quality_suite.
NumTestCases == 8

QualIdle ==
    /\ qualPc = "idle"
    /\ qualI = 0
    /\ test_cases = <<>>
    /\ clip_scores = 0
    /\ qualSummary = NoSummary

\* run_quality_suite up to the loop: it returns early without a workflow.
RunQualitySuite ==
    /\ qualPc = "idle"
    /\ \E loaded \in BOOLEAN :
         qualPc' = IF loaded THEN "running" ELSE "returned_early"
    /\ UNCHANGED <<qualI, test_cases, clip_scores, qualSummary>>
    /\ UNCHANGED <<batchVars, apiVars, apiBatchVars, quickVars, perfVars,
                   singleVars>>

\* What run_quality_test returns: None (submission failed, timeout, or no
\* output file found), or a result dict with success True and a CLIP score
\* that may be None.
QualityResults == {"None", "scored", "unscored"}

\* One iteration of the test loop: only a result dict is recorded.
QualityTest ==
    /\ qualPc = "running"
    /\ qualI < NumTestCases
    /\ \E res \in QualityResults :
         IF res = "None"
         THEN UNCHANGED <<test_cases, clip_scores>>
         ELSE /\ test_cases' = Append(test_cases, [success |-> TRUE,
                                                   scored |-> (res = "scored")])
              /\ clip_scores' = IF res = "scored" THEN clip_scores + 1
                                ELSE clip_scores
    /\ qualI' = qualI + 1
    /\ UNCHANGED <<qualPc, qualSummary>>
    /\ UNCHANGED <<batchVars, apiVars, apiBatchVars, quickVars, perfVars,
                   singleVars>>

\* What calculate_quality_metrics prints first:
\* successful_tests / total_tests * 100 over the recorded test cases.
PrintedQualityMetrics ==
    LET total_tests == Len(test_cases)
        successful_tests == Len(SelectSeq(test_cases, LAMBDA t : t.success))
    IN  IF total_tests = 0
        THEN [NoSummary EXCEPT !.error = "ZeroDivisionError"]
        ELSE [NoSummary EXCEPT !.error = "None",
                               !.rate = [num |-> successful_tests * 100,
                                         den |-> total_tests],
                               !.count = successful_tests]

\* calculate_quality_metrics at the end of run_quality_suite; an exception
\* leaves run_quality_suite and main.
CalculateQualityMetrics ==
    /\ qualPc = "running"
    /\ qualI = NumTestCases
    /\ qualSummary' = PrintedQualityMetrics
    /\ qualPc' = IF PrintedQualityMetrics.error = "None" THEN "done" ELSE "raised"
    /\ UNCHANGED <<qualI, test_cases, clip_scores>>
    /\ UNCHANGED <<batchVars, apiVars, apiBatchVars, quickVars, perfVars,
                   singleVars>>

\* The generator exists but run_batch is not called on it.
BatchUnused ==
    /\ max_workers = 1
    /\ batchPc = "unused"
    /\ calls = 0
    /\ prompts = <<>>
    /\ jstate = <<>>
    /\ collected = {}
    /\ results = <<>>
    /\ stats = [total |-> 0, successful |-> 0, failed |-> 0]
    /\ cancelled = FALSE
    /\ gtime = <<>>
    /\ invocations = <<>>
    /\ peak = 0
    /\ summaries = 0
    /\ summary = NoSummary

Init == BatchInit /\ ApiIdle /\ ApiBatchIdle /\ QuickIdle /\ PerfIdle /\ QualIdle
    /\ SingleIdle

Next ==
    \/ RunBatch(MaxJobs, MainCalls)
    \/ \E j \in Jobs : StartJob(j)
    \/ \E j \in Jobs : SubmitReturns(j)
    \/ \E j \in Jobs : PollReturns(j, 0)
    \/ \E j \in Jobs : Collect(j)
    \/ ReturnBatch
    \/ Interrupt
    \/ ShutdownDone

Spec == Init /\ [][Next]_vars

\* The same generator used for several batches in a row.
NextReuse ==
    \/ RunBatch(MaxReuseJobs, MaxCalls)
    \/ \E j \in Jobs : StartJob(j)
    \/ \E j \in Jobs : SubmitReturns(j)
    \/ \E j \in Jobs : PollReturns(j, MaxGenTime)
    \/ \E j \in Jobs : Collect(j)
    \/ ReturnBatch
    \/ PrintSummary
    \/ Interrupt
    \/ ShutdownDone

SpecReuse == Init /\ [][NextReuse]_vars

\* One generate_image call of a QwenImageAPI client.
InitApi ==
    ApiInit /\ BatchIdle /\ ApiBatchIdle /\ QuickIdle /\ PerfIdle /\ QualIdle
    /\ SingleIdle

NextApi ==
    \/ GenerateImage
    \/ SubmitAttempt
    \/ SubmitGivesUp
    \/ PollOnce
    \/ PollTimesOut

SpecApi == InitApi /\ [][NextApi]_vars

\* batch_generate of a QwenImageAPI client over a list of requests.
InitApiBatch ==
    /\ api_timeout \in 1..MaxBatchTimeout
    /\ max_retries \in 0..MaxBatchRetries
    /\ retry_delay \in 0..MaxRetryDelay
    /\ apiPc = "idle"
    /\ attempt = 0
    /\ submitReplies = <<>>
    /\ waits = <<>>
    /\ handle = "None"
    /\ now = 0
    /\ pollStart = 0
    /\ pollCount = 0
    /\ lastPollSentAt = -1
    /\ lastPoll = "none"
    /\ polledIds = {}
    /\ outcome = NoResult
    /\ ApiBatchInit
    /\ BatchIdle
    /\ QuickIdle
    /\ PerfIdle
    /\ QualIdle
    /\ SingleIdle

NextApiBatch ==
    \/ BatchCallsGenerateImage
    \/ SubmitAttempt
    \/ SubmitGivesUp
    \/ PollOnce
    \/ PollTimesOut
    \/ BatchAppendsResult
    \/ BatchGenerateRaises
    \/ BatchGenerateReturns

SpecApiBatch == InitApiBatch /\ [][NextApiBatch]_vars

\* batch_generate runs in one thread that nothing suspends, and every POST
\* and GET returns or times out (timeout=10 and timeout=5): a step that is
\* enabled is eventually taken.
SpecApiBatchLive ==
    InitApiBatch /\ [][NextApiBatch]_vars /\ WF_vars(NextApiBatch)

\* One generate_image call of a QwenImageGenerator (quick_start).
InitQuick ==
    QuickInit /\ BatchIdle /\ ApiIdle /\ ApiBatchIdle /\ PerfIdle /\ QualIdle
    /\ SingleIdle

NextQuick ==
    \/ QuickGenerateImage
    \/ QuickSubmit
    \/ QuickPollOnce
    \/ QuickPollTimesOut

SpecQuick == InitQuick /\ [][NextQuick]_vars

\* One aggregating client is run to its summary: a BatchGenerator (one
\* run_batch call, then print_summary) or a PerformanceBenchmark
\* (run_benchmark_suite, which ends in calculate_statistics).
InitSummary ==
    /\ \/ BatchInit /\ PerfUnused
       \/ BatchUnused /\ PerfIdle
    /\ ApiIdle
    /\ ApiBatchIdle
    /\ QuickIdle
    /\ QualIdle
    /\ SingleIdle

NextSummary ==
    \/ RunBatch(MaxSummaryJobs, MainCalls)
    \/ \E j \in Jobs : StartJob(j)
    \/ \E j \in Jobs : SubmitReturns(j)
    \/ \E j \in Jobs : PollReturns(j, MaxGenTime)
    \/ \E j \in Jobs : Collect(j)
    \/ ReturnBatch
    \/ PrintSummary
    \/ Interrupt
    \/ ShutdownDone
    \/ RunBenchmarkSuite
    \/ MeasureSubmit
    \/ CheckStatus
    \/ MeasureTimesOut
    \/ CalculateStatistics

SpecSummary == InitSummary /\ [][NextSummary]_vars

\* run_benchmark_suite of a PerformanceBenchmark.
InitPerf ==
    BatchIdle /\ ApiIdle /\ ApiBatchIdle /\ QuickIdle /\ PerfIdle /\ QualIdle
    /\ SingleIdle

NextPerf ==
    \/ RunBenchmarkSuite
    \/ MeasureSubmit
    \/ CheckStatus
    \/ MeasureTimesOut
    \/ CalculateStatistics

SpecPerf == InitPerf /\ [][NextPerf]_vars

\* The three polling clients side by side: each has had its submission
\* accepted at clock 0 and enters its polling loop with the same timeout and
\* the same handle; every status check of a client still polling gets the
\* same reply after the same number of ticks.
InitPolling ==
    /\ \E t \in 1..MaxTimeout :
         /\ api_timeout = t
         /\ quick_timeout = t
         /\ single_timeout = t
    /\ max_retries = 1
    /\ retry_delay = 0
    /\ apiPc = "polling"
    /\ attempt = 0
    /\ submitReplies = <<"200">>
    /\ waits = <<0>>
    /\ handle = "p1"
    /\ now = 0
    /\ pollStart = 0
    /\ pollCount = 0
    /\ lastPollSentAt = -1
    /\ lastPoll = "none"
    /\ polledIds = {}
    /\ outcome = NoResult
    /\ quickPc = "polling"
    /\ quickNow = 0
    /\ quickPollStart = 0
    /\ quickPollCount = 0
    /\ quickLastPoll = "none"
    /\ quickOutcome = QuickPending
    /\ singlePc = "polling"
    /\ singleNow = 0
    /\ singlePollStart = 0
    /\ singleOutcome = SinglePending
    /\ BatchIdle
    /\ ApiBatchIdle
    /\ PerfIdle
    /\ QualIdle

\* The service answers one status check: every client whose loop is still
\* running sends it and gets the same reply.
ServiceReplies ==
    /\ \/ apiPc = "polling" /\ WithinBudget
       \/ quickPc = "polling" /\ QuickWithinBudget
       \/ singlePc = "polling" /\ SingleWithinBudget
    /\ \E reply \in GetReplies, d \in 0..MaxGetTime :
        /\ IF apiPc = "polling" /\ WithinBudget
           THEN PollOnceWith(reply, d) ELSE UNCHANGED apiVars
        /\ IF quickPc = "polling" /\ QuickWithinBudget
           THEN QuickPollOnceWith(reply, d) ELSE UNCHANGED quickVars
        /\ IF singlePc = "polling" /\ SingleWithinBudget
           THEN SinglePollOnceWith(reply, d) ELSE UNCHANGED singleVars
    /\ UNCHANGED <<batchVars, apiBatchVars, perfVars, qualVars>>

NextPolling ==
    \/ ServiceReplies
    \/ PollTimesOut
    \/ QuickPollTimesOut
    \/ SinglePollTimesOut

SpecPolling == InitPolling /\ [][NextPolling]_vars

\* run_quality_suite of a QualityBenchmark.
InitQuality ==
    BatchIdle /\ ApiIdle /\ ApiBatchIdle /\ QuickIdle /\ PerfIdle /\ QualIdle
    /\ SingleIdle

NextQuality ==
    \/ RunQualitySuite
    \/ QualityTest
    \/ CalculateQualityMetrics

SpecQuality == InitQuality /\ [][NextQuality]_vars

\* ----------------------------------------------------------------- claims

\* C1: whenever run_batch has returned, successful + failed = total, also
\* when the generator had already run a batch before (checked under
\* SpecReuse, where it fails: the counters are never reset, total is).
CountersAddUp ==
    batchPc = "returned" => stats.successful + stats.failed = stats.total

\* C2: at every instant of run_batch at most max_workers jobs are inside
\* generate_single (submitting or polling), and every other unfinished job
\* is still pending.
BoundedConcurrency ==
    batchPc \in {"collecting", "shutdown"} =>
        /\ Cardinality(Active) <= max_workers
        /\ \A j \in Jobs \ Done : j \in Active \/ jstate[j] = "pending"

\* The pool is saturated with two running jobs while a third one waits.
BoundedConcurrencyWitness ==
    /\ max_workers = 2
    /\ Cardinality(Active) = 2
    /\ Pending # {}

\* C3: timeout dominance: a success is returned only if its reply arrived
\* before the timeout had elapsed (measured, as the code does, from the
\* start of wait_for_completion).
TimeoutDominance ==
    outcome.success => outcome.generation_time < api_timeout

\* C4: submit_generation never sends more than max_retries POSTs.
RetryBound == Len(submitReplies) <= max_retries

\* All three allowed attempts were used and the submission was given up.
RetryBoundWitness ==
    /\ max_retries = 3
    /\ Len(submitReplies) = 3
    /\ apiPc = "done"

AllTransient ==
    \A i \in 1..Len(submitReplies) : submitReplies[i] \in TransientReplies

\* C5: when every submission attempt fails with a transient error (429 or a
\* transport exception), exactly max_retries attempts are made and the job
\* ends with 'Failed to submit generation request', never having been polled.
TransientFailuresExhaustRetries ==
    (AllTransient /\ apiPc \notin {"idle", "submitting"}
        /\ outcome.error # "Failed to load workflow") =>
        /\ apiPc = "done"
        /\ Len(submitReplies) = max_retries
        /\ ~outcome.success
        /\ outcome.error = "Failed to submit generation request"
        /\ pollCount = 0

\* Three attempts, rate limiting and transport errors mixed, then the failure.
TransientFailuresWitness ==
    /\ max_retries = 3
    /\ apiPc = "done"
    /\ submitReplies = <<"exception", "429", "exception">>
    /\ outcome.error = "Failed to submit generation request"

\* C6: a submission rejected with a status other than 200 and 429 is the
\* job's last submission attempt.
NonRetryableRejectionIsFinal ==
    \A i \in 1..Len(submitReplies) :
        submitReplies[i] = "other_status" => i = Len(submitReplies)

\* C7: after a status check answered with a non-200 status (NotFound) the
\* job is not polled again.
NotFoundEndsPolling ==
    [][lastPoll = "non200" => pollCount' = pollCount]_vars

\* C8: the time budget runs from the first submission attempt (clock 0): no
\* status check is sent once timeout ticks have passed since then.
BudgetFromFirstSubmission ==
    lastPollSentAt # -1 => lastPollSentAt < api_timeout

\* C9: once the interrupt has been delivered, no job that is still pending
\* is submitted to the remote service.
NoAdmissionAfterCancel ==
    [][cancelled => \A j \in Jobs : jstate[j] = "pending" => jstate'[j] # "submitting"]_vars

\* C10: a worker that raised does not abort run_batch: the exception is not
\* propagated, and when run_batch returns every job of the batch has run to
\* its end and has been collected.
WorkerFaultTolerated ==
    (\E j \in Jobs : jstate[j] = "raised") =>
        /\ batchPc # "aborted"
        /\ batchPc = "returned" =>
               \A k \in Jobs : jstate[k] \in DoneStates /\ k \in collected

\* The first job raised, a later job still succeeded, run_batch returned.
WorkerFaultWitness ==
    /\ batchPc = "returned"
    /\ Len(prompts) >= 2
    /\ jstate[1] = "raised"
    /\ \E k \in Jobs : jstate[k] = "ok"

\* C11: after run_batch has returned, self.results holds exactly one record
\* per job of the batch (the indices are a permutation of 0..total-1), a job
\* whose worker raised included.
OneRecordPerJob ==
    batchPc = "returned" =>
        /\ Len(results) = Len(prompts)
        /\ {results[i].index : i \in 1..Len(results)} = {j - 1 : j \in Jobs}

\* C12: with retry_delay > 0, every submission attempt that is followed by
\* another one is followed by a strictly positive wait first.
PositiveWaitBetweenAttempts ==
    retry_delay > 0 =>
        \A i \in 1..(Len(submitReplies) - 1) : waits[i] > 0

\* C13: the waits between successive attempts are non-decreasing and stay
\* below a cap fixed by the configuration (retry_delay * max_retries).
BackoffGrowsAndCapped ==
    \A i \in 1..(Len(submitReplies) - 1) :
        /\ waits[i] <= retry_delay * max_retries
        /\ \A k \in 1..(Len(submitReplies) - 1) : i <= k => waits[i] <= waits[k]

\* C14: a transport error on a status check does not end the job: it is
\* still being polled afterwards.
PollErrorKeepsPolling ==
    lastPoll = "exception" => apiPc = "polling"

\* C15: a job is reported as timed out only if its time budget has elapsed.
TimeoutOnlyWhenBudgetElapsed ==
    (apiPc = "done" /\ outcome.error = "timeout") => now - pollStart >= api_timeout

\* C16: with retry_failed set, a submission answered 429 does not fail the
\* job on its first attempt.
TransientSubmitFailureRetried ==
    [][retry_failed =>
         \A j \in Jobs : jstate[j] = "submitting" => jstate'[j] # "err_submit_429"]_vars

\* C19: when run_batch returns, every job's generate_single call has ended
\* and its outcome has been counted.
CountedJobs(states) == Cardinality({j \in Jobs : jstate[j] \in states})

ReturnsAfterAllJobs ==
    batchPc = "returned" =>
        /\ \A j \in Jobs : jstate[j] \in DoneStates /\ j \in collected
        /\ stats.successful = CountedJobs({"ok"})
        /\ stats.failed = CountedJobs(DoneStates \ {"ok"})

\* A full batch with a success, a timeout and a raised worker has returned.
ReturnsAfterAllJobsWitness ==
    /\ batchPc = "returned"
    /\ Len(prompts) = 3
    /\ \E a, b, c \in Jobs :
         jstate[a] = "ok" /\ jstate[b] = "err_timeout" /\ jstate[c] = "raised"

\* C20: jobs are taken up in input order: a job that has left the queue has
\* no job with a smaller index still queued behind it.
AdmissionInInputOrder ==
    \A j \in Jobs : jstate[j] # "pending" =>
        \A k \in Jobs : k < j => jstate[k] # "pending"

\* Completion order is free: the second job is done while the first, taken
\* up before it, is still polling and a third one waits.
AdmissionOrderWitness ==
    /\ Len(prompts) = 3
    /\ jstate[1] = "polling"
    /\ jstate[2] = "ok"
    /\ jstate[3] = "pending"

\* C17: every outcome returned for a job has exactly one of result and
\* error populated (here: what QwenImageGenerator.generate_image returns).
ExactlyOneOfResultAndError ==
    quickPc = "done" =>
        (quickOutcome.images # "None") # (quickOutcome.error # "None")

\* C18: batch_generate never raises, and returns one result per request.
BatchGenerateReturnsAll ==
    /\ apiBatchPc # "raised"
    /\ apiBatchPc = "returned" => Len(apiResults) = apiRequests

\* C21: only the collecting loop writes the counters and the results list:
\* at every instant, whatever the workers are doing, successful and failed
\* equal the number of collected jobs with that outcome and the list holds
\* one record per collected job that returned.
SingleWriterCounters ==
    /\ stats.successful = Cardinality({j \in collected : jstate[j] = "ok"})
    /\ stats.failed = Cardinality({j \in collected : jstate[j] # "ok"})
    /\ Len(results) = Cardinality({j \in collected : jstate[j] # "raised"})

\* A success and a failure have been counted while a third job is still
\* inside generate_single.
SingleWriterWitness ==
    /\ batchPc = "collecting"
    /\ Len(prompts) = 3
    /\ Active # {}
    /\ stats.successful = 1
    /\ stats.failed = 1

\* Scenario A: run_batch has returned for a batch of at least max_workers
\* jobs, each accepted by its POST and finished with an image in time.
ScenarioA ==
    /\ batchPc = "returned"
    /\ Len(prompts) >= max_workers
    /\ \A j \in Jobs : jstate[j] = "ok"

\* C23 as stated: in scenario A every job succeeded, the success rate is
\* 100% and the peak number of jobs inside generate_single is exactly
\* max_workers.
ScenarioAPeakExact ==
    ScenarioA =>
        /\ stats.successful = stats.total
        /\ stats.failed = 0
        /\ peak = max_workers

\* C23 amended: in scenario A every job succeeded, the success rate is
\* 100%, and the peak number of jobs inside generate_single is at least 1
\* and at most max_workers.
ScenarioAPeakBounded ==
    ScenarioA =>
        /\ stats.total = Len(prompts)
        /\ stats.successful = stats.total
        /\ stats.failed = 0
        /\ Len(results) = Len(prompts)
        /\ \A i \in 1..Len(results) : results[i].success
        /\ 1 <= peak
        /\ peak <= max_workers

\* Three jobs on two workers, all succeeded, two of them side by side.
ScenarioAWitness ==
    /\ ScenarioA
    /\ Len(prompts) = 3
    /\ max_workers = 2
    /\ peak = 2

\* C27: run_batch fails with the configuration error exactly when it is
\* called with max_workers <= 0, and then no job has left the queue;
\* with a positive max_workers, and unless the user interrupts it, it is
\* collecting or has returned, whatever happened to the jobs.
ConfigErrorOnly ==
    /\ batchPc = "config_error" <=> (calls > 0 /\ max_workers <= 0)
    /\ batchPc = "config_error" => \A j \in Jobs : jstate[j] = "pending"
    /\ (calls > 0 /\ max_workers > 0 /\ ~cancelled) =>
           batchPc \in {"collecting", "returned"}

\* Three prompts handed to a generator configured with max_workers = 0.
ConfigErrorWitness ==
    /\ batchPc = "config_error"
    /\ max_workers = 0
    /\ Len(prompts) = 3

\* C29: generate_single is entered exactly once for every job that has left
\* the queue and never for one still queued, once for every job when
\* run_batch returns, and no two records carry the same job index.
OneInvocationPerJob ==
    /\ \A j \in Jobs : invocations[j] = IF jstate[j] = "pending" THEN 0 ELSE 1
    /\ batchPc = "returned" => \A j \in Jobs : invocations[j] = 1
    /\ \A i, k \in 1..Len(results) :
           results[i].index = results[k].index => i = k

\* A full batch on two workers has returned, each job entered once.
OneInvocationWitness ==
    /\ batchPc = "returned"
    /\ Len(prompts) = 3
    /\ max_workers = 2
    /\ Len(results) = 3
    /\ \A j \in Jobs : invocations[j] = 1

\* C24: a job whose status checks never report an entry (and never raise)
\* ends with the timeout result no earlier than api_timeout after the start
\* of the polling and no later than one poll interval after that.
TimedOutWithinOnePollInterval ==
    (apiPc = "done" /\ outcome.error = "timeout" /\ lastPoll # "exception") =>
        /\ now - pollStart >= api_timeout
        /\ now - pollStart <= api_timeout + PollInterval

\* C28: the handle is set by an accepted submission (a 200 with a
\* prompt_id) and never changes afterwards; every status check carries it,
\* none is sent while there is no handle, and the outcome of a job that
\* has a handle reports that handle.
HandleAssignedOnce ==
    [][/\ handle # "None" => handle' = handle
       /\ handle' # handle => submitReplies' = Append(submitReplies, "200")
       /\ polledIds' \subseteq ({handle'} \ {"None"})
       /\ pollCount' > 0 => handle' # "None"
       /\ (apiPc' = "done" /\ handle' # "None") =>
              outcome'.prompt_id = handle']_vars

\* The second attempt was accepted with id p2, two status checks were made
\* with it and the outcome carries it.
HandleWitness ==
    /\ apiPc = "done"
    /\ Len(submitReplies) >= 2
    /\ handle = "p2"
    /\ pollCount >= 2
    /\ polledIds = {"p2"}
    /\ outcome.prompt_id = "p2"

\* C30: an accepted submission is the last POST of its job and is followed
\* by no sleep: submit_generation has returned the handle.
AcceptedSubmissionIsLast ==
    \A i \in 1..Len(submitReplies) :
        /\ submitReplies[i] \in {"200", "200_no_id"} =>
               /\ i = Len(submitReplies)
               /\ waits[i] = 0
               /\ apiPc # "submitting"
        /\ submitReplies[i] = "200" => handle # "None"

\* Two transient failures, then the third attempt is accepted and the job
\* succeeds.
AcceptedAfterTransientWitness ==
    /\ submitReplies = <<"exception", "429", "200">>
    /\ apiPc = "done"
    /\ outcome.success

\* C22: no summary fails with a division error, whatever the run recorded:
\* not print_summary, not calculate_statistics, not
\* calculate_quality_metrics.
SummaryWithoutDivisionError ==
    /\ summary.error # "ZeroDivisionError"
    /\ perfSummary.error # "ZeroDivisionError"
    /\ qualSummary.error # "ZeroDivisionError"

\* The generation times of a set of jobs of the current batch, as a list.
RECURSIVE TimesOf(_)
TimesOf(S) ==
    IF S = {} THEN <<>>
    ELSE LET j == CHOOSE x \in S : TRUE
         IN  <<gtime[j]>> \o TimesOf(S \ {j})

\* C25: the summary printed after a run reports the rate
\* succeeded / total of that run, and its timing statistics are those of
\* the generation times of exactly the jobs of the run that succeeded.
ReportedRateAndTimes ==
    (batchPc = "returned" /\ summaries > 0 /\ summary.error = "None") =>
        LET ok == {j \in Jobs : jstate[j] = "ok"}
        IN  /\ summary.rate.num * Len(prompts) =
                   100 * Cardinality(ok) * summary.rate.den
            /\ summary.count = Cardinality(ok)
            /\ ok # {} =>
                   /\ summary.mean = Mean(TimesOf(ok))
                   /\ summary.median2 = Median2(TimesOf(ok))
                   /\ summary.min \in {gtime[j] : j \in ok}
                   /\ summary.max \in {gtime[j] : j \in ok}
                   /\ \A j \in ok : summary.min <= gtime[j] /\ gtime[j] <= summary.max

\* C26: a print_summary step changes neither self.results nor self.stats
\* nor any job, a calculate_statistics step changes neither the recorded
\* times nor the request counters, and a repeated call prints what the
\* call before it printed.
AggregationReadOnlyIdempotent ==
    [][/\ summaries' > summaries =>
              /\ results' = results
              /\ stats' = stats
              /\ jstate' = jstate
              /\ summaries > 0 => summary' = summary
       /\ perfSummaries' > perfSummaries =>
              /\ generation_times' = generation_times
              /\ total_requests' = total_requests
              /\ failed_requests' = failed_requests
              /\ perfSummaries > 0 =>
                     (perfSummary' = perfSummary /\ success_rate' = success_rate)]_vars

\* print_summary was called twice on a run with two successes of different
\* duration and printed their statistics.
AggregationWitness ==
    /\ summaries = 2
    /\ summary.error = "None"
    /\ summary.count = 2
    /\ summary.min < summary.max

\* C33: when the last allowed submission attempt fails with a transient
\* error (429 or a transport exception), no backoff is slept after it.
NoBackoffAfterFinalAttempt ==
    (max_retries > 0 /\ Len(submitReplies) = max_retries
        /\ submitReplies[max_retries] \in TransientReplies) =>
        waits[max_retries] = 0

\* C34: at every point of the test loop total_requests equals
\* len(generation_times) + failed_requests and the number of tests run; it
\* equals num_tests when the suite has reached its statistics; a test
\* whose submission failed or that timed out has raised failed_requests by
\* one.
BenchmarkCountersConsistent ==
    /\ total_requests = Len(generation_times) + failed_requests
    /\ total_requests = perfI
    /\ perfPc = "done" => total_requests = num_tests
    /\ (lastMeasure \in {"None", "timeout"} /\ perfI = 1) => failed_requests = 1

\* A suite of two tests has finished: one succeeded, then one timed out.
BenchmarkCountersWitness ==
    /\ perfPc = "done"
    /\ num_tests = 2
    /\ Len(generation_times) = 1
    /\ failed_requests = 1
    /\ lastMeasure = "timeout"

\* C35: measure_generation makes at most max_wait_time / poll_interval
\* status checks; while it polls, every check made so far was unsuccessful
\* and added one poll_interval to elapsed, whatever it met (an exception
\* and empty outputs included); the timeout outcome comes after exactly
\* max_wait_time / poll_interval checks.
StatusChecksBounded ==
    /\ checks <= max_wait_time \div poll_interval
    /\ perfPc = "polling" => checks * poll_interval = elapsed
    /\ (lastMeasure = "timeout" /\ perfPc \in {"running", "done"}) =>
           checks = max_wait_time \div poll_interval
    /\ (lastMeasure = "success" /\ perfPc \in {"running", "done"}) =>
           checks >= 1

\* A test has timed out after 120 status checks and the suite has finished.
StatusChecksWitness ==
    /\ perfPc = "done"
    /\ lastMeasure = "timeout"
    /\ checks = 120
    /\ elapsed = max_wait_time

\* The outcome class of a finished polling client: success, timeout or
\* failure.
ApiOutcomeClass ==
    IF outcome.success THEN "success"
    ELSE IF outcome.error = "timeout" THEN "timeout" ELSE "failure"

QuickOutcomeClass ==
    IF quickOutcome.success THEN "success"
    ELSE IF quickOutcome.error = "timeout" THEN "timeout" ELSE "failure"

SingleOutcomeClass ==
    IF singleOutcome.success THEN "success"
    ELSE IF singleOutcome.error = "Generation timeout" THEN "timeout"
    ELSE "failure"

AllPollingDone == apiPc = "done" /\ quickPc = "done" /\ singlePc = "done"

\* C32: with the same handle, the same timeout and the same service
\* replies, QwenImageAPI.wait_for_completion, QwenImageGenerator
\* .wait_for_completion and the polling loop of generate_single end in the
\* same outcome class.
SamePollingOutcomeClass ==
    AllPollingDone =>
        /\ ApiOutcomeClass = QuickOutcomeClass
        /\ QuickOutcomeClass = SingleOutcomeClass

\* C31: whatever the service answers, every request of batch_generate
\* eventually has its terminal outcome and batch_generate eventually
\* returns the list of results.
BatchGenerateEventuallyReturns ==
    <>(apiBatchPc = "returned" /\ Len(apiResults) = apiRequests)
====
